---- MODULE Spec2Model ----
(***************************************************************************)
(* Token-gated, ephemeral delivery of stored media (src/main.py).          *)
(*                                                                         *)
(* The process is one asyncio event loop.  A coroutine runs without        *)
(* interruption between two awaits, so every action below is the code of   *)
(* one handler from one await to the next: the awaited call (a platform    *)
(* call or one SQL statement) returns or raises, and the synchronous code  *)
(* that follows it runs up to the next await.                              *)
(***************************************************************************)
EXTENDS Integers, Sequences, FiniteSets, TLC

\* ------------------------------------------------------------------------
\* Configuration (environment defaults) and bounds of the model
\* ------------------------------------------------------------------------
RATE_LIMIT_COUNT == 6
RATE_LIMIT_PERIOD == 60
DEFAULT_DELETE_TIMEOUT == 20

NumFlows == 2        \* redemption requests (tasks running handle_start_message)
NumUsers == 2        \* requesting identities
TickStep == 30       \* seconds between two readings of the clock
MaxTime == 0         \* the clock stops here once no deletion task is asleep
MaxTimeCalls == 90   \* horizon of the clock in the call sequences
MaxCalls == 8        \* calls of is_rate_limited in one call sequence
MaxRows == 2         \* deliveries rows of the close sequences
NumPosts == 2        \* channel_post updates (tasks running process_channel_post)

Flows == 1..NumFlows
Users == 1..NumUsers

NULL == -1           \* SQL NULL of a timestamp column
None == 0            \* Python None / no row, for ids (ids are positive)

Max(a, b) == IF a >= b THEN a ELSE b

VARIABLES
    now,          \* time.time() / the store's now()
    _rate_map,    \* user_id -> timestamps
    files,        \* table files, indexed by id
    users,        \* table users: the user_ids that have a row
    deliveries,   \* table deliveries, indexed by id
    settings,     \* table settings: rows [key, value]
    flows,        \* per redemption request: position and locals of handle_start_message
    log,          \* per redemption request: the calls it has made, in order
    tasks,        \* per deliveries id: the do_delete task armed for it
    firstClose,   \* per deliveries id: time of the first successful close
    rlCalls,      \* per user: the calls of is_rate_limited, [t, limited]
    STORAGE_CHANNEL_ID,  \* the configured storage channel, 0 when not set
    posts         \* the process_channel_post tasks: position, update, calls made

vars == <<now, _rate_map, files, users, deliveries, settings, flows, log,
          tasks, firstClose, rlCalls, STORAGE_CHANNEL_ID, posts>>

\* ------------------------------------------------------------------------
\* Storage: the statements of the helper DB functions
\* ------------------------------------------------------------------------
\* get_file_by_token without the filter on active
get_file_by_token_any(fs, token) ==
    LET hits == {i \in 1..Len(fs) : fs[i].token = token}
    IN  IF hits = {} THEN None ELSE CHOOSE i \in hits : \A j \in hits : i <= j

\* SELECT * FROM files WHERE token=$1 AND active=true  (fetchrow: first row or None)
get_file_by_token(fs, token) ==
    LET hits == {i \in 1..Len(fs) : fs[i].token = token /\ fs[i].active}
    IN  IF hits = {} THEN None ELSE CHOOSE i \in hits : \A j \in hits : i <= j

\* increment_file_views writing a value instead of adding to the column
increment_file_views_set(fs, file_id) ==
    [i \in 1..Len(fs) |-> IF i = file_id THEN [fs[i] EXCEPT !.views = 1] ELSE fs[i]]

\* increment_file_views without the WHERE clause
increment_file_views_all(fs, file_id) ==
    [i \in 1..Len(fs) |-> [fs[i] EXCEPT !.views = @ + 1]]

\* UPDATE files SET views = views + 1 WHERE id=$1
increment_file_views(fs, file_id) ==
    [i \in 1..Len(fs) |-> IF i = file_id THEN [fs[i] EXCEPT !.views = @ + 1] ELSE fs[i]]

\* upsert_user that writes nothing
upsert_user_noop(us, user_id) == us

\* INSERT INTO users ... ON CONFLICT (user_id) DO UPDATE ...
upsert_user(us, user_id) == us \cup {user_id}

\* record_delivery that keeps one row per (file, user)
record_delivery_dedup(ds, file_id, user_id, sent_message_id) ==
    IF \E i \in 1..Len(ds) : ds[i].file_id = file_id /\ ds[i].user_id = user_id
    THEN ds
    ELSE Append(ds, [file_id |-> file_id, user_id |-> user_id,
                     sent_message_id |-> sent_message_id, deleted_at |-> NULL])

\* INSERT INTO deliveries (file_id, user_id, sent_message_id) ... RETURNING id
record_delivery(ds, file_id, user_id, sent_message_id) ==
    Append(ds, [file_id |-> file_id, user_id |-> user_id,
                sent_message_id |-> sent_message_id, deleted_at |-> NULL])

\* mark_delivery_deleted without the WHERE clause
mark_delivery_deleted_all(ds, delivery_id, t) ==
    [i \in 1..Len(ds) |-> [ds[i] EXCEPT !.deleted_at = t]]

\* UPDATE deliveries SET deleted_at = now() WHERE id=$1
mark_delivery_deleted(ds, delivery_id, t) ==
    [i \in 1..Len(ds) |-> IF i = delivery_id THEN [ds[i] EXCEPT !.deleted_at = t] ELSE ds[i]]

\* SELECT value FROM settings WHERE key=$1, or the default
get_setting(st, key, default) ==
    LET rows == {r \in st : r.key = key}
    IN  IF rows # {} THEN (CHOOSE r \in rows : TRUE).value ELSE default

\* ------------------------------------------------------------------------
\* int(timeout_setting): strings are sequences of characters
\* ------------------------------------------------------------------------
DigitVal(c) ==
    CASE c = "0" -> 0 [] c = "1" -> 1 [] c = "2" -> 2 [] c = "3" -> 3 [] c = "4" -> 4
      [] c = "5" -> 5 [] c = "6" -> 6 [] c = "7" -> 7 [] c = "8" -> 8 [] c = "9" -> 9
      [] OTHER -> -1

IsDigits(s) == Len(s) > 0 /\ \A i \in 1..Len(s) : DigitVal(s[i]) >= 0

RECURSIVE DigitsVal(_)
DigitsVal(s) ==
    IF Len(s) = 0 THEN 0
    ELSE 10 * DigitsVal(SubSeq(s, 1, Len(s) - 1)) + DigitVal(s[Len(s)])

\* try: timeout = int(timeout_setting)  except: timeout = DEFAULT_DELETE_TIMEOUT
ParseTimeout(s) ==
    IF IsDigits(s) THEN DigitsVal(s)
    ELSE IF Len(s) > 1 /\ s[1] = "-" /\ IsDigits(Tail(s)) THEN 0 - DigitsVal(Tail(s))
    ELSE DEFAULT_DELETE_TIMEOUT

\* str(DEFAULT_DELETE_TIMEOUT)
DefaultTimeoutStr == <<"2", "0">>

\* is_rate_limited that records only the calls it allows
is_rate_limited_dropRefused(lst, now_ts) ==
    LET window_start == now_ts - RATE_LIMIT_PERIOD
        Keep(t) == t >= window_start
        old == SelectSeq(lst, Keep)
        kept == Append(old, now_ts)
    IN  [lst |-> IF Len(kept) > RATE_LIMIT_COUNT THEN old ELSE kept,
         limited |-> Len(kept) > RATE_LIMIT_COUNT]

\* is_rate_limited that answers from the window but does not store it
is_rate_limited_noStore(lst, now_ts) ==
    LET window_start == now_ts - RATE_LIMIT_PERIOD
        Keep(t) == t >= window_start
        kept == Append(SelectSeq(lst, Keep), now_ts)
    IN  [lst |-> lst, limited |-> Len(kept) > RATE_LIMIT_COUNT]

\* ------------------------------------------------------------------------
\* Rate limiter
\* ------------------------------------------------------------------------
\* is_rate_limited with the threshold off by one (>= for >)
is_rate_limited_ge(lst, now_ts) ==
    LET window_start == now_ts - RATE_LIMIT_PERIOD
        Keep(t) == t >= window_start
        kept == Append(SelectSeq(lst, Keep), now_ts)
    IN  [lst |-> kept, limited |-> Len(kept) >= RATE_LIMIT_COUNT]

\* is_rate_limited: the new window of the user and the value returned
is_rate_limited(lst, now_ts) ==
    LET window_start == now_ts - RATE_LIMIT_PERIOD
        Keep(t) == t >= window_start
        kept == Append(SelectSeq(lst, Keep), now_ts)
    IN  [lst |-> kept, limited |-> Len(kept) > RATE_LIMIT_COUNT]

\* ------------------------------------------------------------------------
\* Initial state
\* ------------------------------------------------------------------------
\* The files table: rows are created with active = true and views = 0; a row
\* is deactivated only from outside the process.
FilesInit ==
    << [token |-> "tA", active |-> TRUE, required_channels |-> <<>>,
        storage_message_id |-> 11, views |-> 0],
       [token |-> "tB", active |-> TRUE, required_channels |-> <<111, 222>>,
        storage_message_id |-> 12, views |-> 0],
       [token |-> "tC", active |-> FALSE, required_channels |-> <<>>,
        storage_message_id |-> 13, views |-> 0] >>

\* Payloads of /start: the three issued tokens and one that was never issued
Tokens == {"tA", "tB", "tC", "tX"}

\* Rows the settings table may hold for delete_timeout_seconds
SettingsChoices ==
    { {},
      {[key |-> "delete_timeout_seconds", value |-> <<"0">>]},
      {[key |-> "delete_timeout_seconds", value |-> <<"a", "b", "c">>]} }

\* The window of user 1 when the model starts: empty, or RATE_LIMIT_COUNT
\* requests made at time 0 (each of them answered "invalid link"), or one
\* request less
FullWindow == [i \in 1..RATE_LIMIT_COUNT |-> 0]

AlmostFullWindow == [i \in 1..(RATE_LIMIT_COUNT - 1) |-> 0]

\* The channel configured as storage channel, and some other channel
StorageChannel == 500

OtherChannel == 600

\* The process_channel_post tasks, one per channel_post update received
Posts == 1..NumPosts

IdlePost ==
    [pc |-> "idle", chat_id |-> None, keys |-> {}, message_id |-> None,
     file_unique_id |-> None, file_type |-> "", token |-> "", file_db_id |-> None,
     calls |-> <<>>]

IdleFlow ==
    [pc |-> "idle", uid |-> None, token |-> "", row |-> None, ch |-> 0,
     forwarded |-> None, warning |-> None, timeout |-> 0, delivery_id |-> None]

InitCommon ==
    /\ now = 0
    /\ files = FilesInit
    /\ flows = [f \in Flows |-> IdleFlow]
    /\ log = [f \in Flows |-> <<>>]
    /\ tasks = <<>>
    /\ firstClose = <<>>
    /\ rlCalls = [u \in Users |-> <<>>]
    /\ posts = [p \in Posts |-> IdlePost]

Init ==
    /\ InitCommon
    /\ STORAGE_CHANNEL_ID = StorageChannel
    /\ \E w \in {<<>>, AlmostFullWindow, FullWindow} : _rate_map = [u \in Users |-> IF u = 1 THEN w ELSE <<>>]
    /\ users = {u \in Users : _rate_map[u] # <<>>}
    /\ deliveries = <<>>
    /\ settings \in SettingsChoices

\* ------------------------------------------------------------------------
\* handle_start_message
\* ------------------------------------------------------------------------
Step(f, pc, e) ==
    /\ flows' = [flows EXCEPT ![f].pc = pc]
    /\ log' = [log EXCEPT ![f] = Append(@, e)]

\* The message_id of the k-th message the platform sends for request f: ids are
\* positive and no two messages of a chat share one
MessageId(f, k) == 2 * (f - 1) + k

\* An exception leaves handle_start_message
Escape(f, e) ==
    /\ flows' = [flows EXCEPT ![f].pc = "raised"]
    /\ log' = [log EXCEPT ![f] = @ \o <<e, "raise">>]

\* handle_start_message without the return after the throttle notice
Start_noReturn(f, uid, token) ==
    /\ flows[f].pc = "idle"
    /\ \A g \in Flows : g < f => flows[g].pc # "idle"
    /\ LET r == is_rate_limited(_rate_map[uid], now) IN
        /\ _rate_map' = [_rate_map EXCEPT ![uid] = r.lst]
        /\ rlCalls' = [rlCalls EXCEPT ![uid] = Append(@, [t |-> now, limited |-> r.limited])]
        /\ flows' = [flows EXCEPT ![f] = [@ EXCEPT !.uid = uid, !.token = token,
                                                  !.pc = "upsert"]]
        /\ log' = [log EXCEPT ![f] = Append(@, IF r.limited THEN "limited" ELSE "allowed")]
    /\ UNCHANGED <<STORAGE_CHANNEL_ID, posts, now, files, users, deliveries, settings, tasks, firstClose>>

\* lines 246-252: the task starts, is_rate_limited(uid).  Requests are numbered
\* in the order in which they start.
Start(f, uid, token) ==
    /\ flows[f].pc = "idle"
    /\ \A g \in Flows : g < f => flows[g].pc # "idle"
    /\ LET r == is_rate_limited(_rate_map[uid], now) IN
        /\ _rate_map' = [_rate_map EXCEPT ![uid] = r.lst]
        /\ rlCalls' = [rlCalls EXCEPT ![uid] = Append(@, [t |-> now, limited |-> r.limited])]
        /\ flows' = [flows EXCEPT ![f] = [@ EXCEPT !.uid = uid, !.token = token,
                        !.pc = IF r.limited THEN "answer_throttle" ELSE "upsert"]]
        /\ log' = [log EXCEPT ![f] = Append(@, IF r.limited THEN "limited" ELSE "allowed")]
    /\ UNCHANGED <<STORAGE_CHANNEL_ID, posts, now, files, users, deliveries, settings, tasks, firstClose>>

\* line 254: await upsert_user(...)
Upsert(f) ==
    /\ flows[f].pc = "upsert"
    /\ \/ /\ users' = upsert_user(users, flows[f].uid)
          /\ Step(f, "lookup", "upsert_user")
       \/ /\ Escape(f, "upsert_user_error")
          /\ UNCHANGED users
    /\ UNCHANGED <<STORAGE_CHANNEL_ID, posts, now, _rate_map, files, deliveries, settings, tasks,
                   firstClose, rlCalls>>

\* lines 256-262: row = await get_file_by_token(token)
Lookup(f) ==
    /\ flows[f].pc = "lookup"
    /\ \/ LET row == get_file_by_token(files, flows[f].token) IN
            /\ flows' = [flows EXCEPT ![f] = [@ EXCEPT !.row = row, !.ch = 1,
                 !.pc = IF row = None THEN "answer_invalid"
                        ELSE IF Len(files[row].required_channels) = 0 THEN "forward"
                        ELSE "member"]]
            /\ log' = [log EXCEPT ![f] = Append(@, "get_file_by_token")]
       \/ Escape(f, "get_file_by_token_error")
    /\ UNCHANGED <<STORAGE_CHANNEL_ID, posts, now, _rate_map, files, users, deliveries, settings, tasks,
                   firstClose, rlCalls>>

\* What get_chat_member answers: a status, or an error
MemberStatus == {"member", "left", "kicked"}

\* The log entry of a get_chat_member call that answered status st
MemberEvent(st) ==
    CASE st = "member" -> "get_chat_member_member"
      [] st = "left" -> "get_chat_member_left"
      [] st = "kicked" -> "get_chat_member_kicked"

\* The membership loop taking a failed query for a confirmation
Membership_errorPasses(f) ==
    /\ flows[f].pc = "member"
    /\ LET req == files[flows[f].row].required_channels IN
       \/ \E st \in MemberStatus :
            /\ flows' = [flows EXCEPT ![f] =
                 IF st \in {"left", "kicked"} THEN [@ EXCEPT !.pc = "get_chat"]
                 ELSE IF flows[f].ch < Len(req) THEN [@ EXCEPT !.ch = @ + 1]
                 ELSE [@ EXCEPT !.pc = "forward"]]
            /\ log' = [log EXCEPT ![f] = Append(@, MemberEvent(st))]
       \/ /\ flows' = [flows EXCEPT ![f] =
                 IF flows[f].ch < Len(req) THEN [@ EXCEPT !.ch = @ + 1]
                 ELSE [@ EXCEPT !.pc = "forward"]]
          /\ log' = [log EXCEPT ![f] = Append(@, "get_chat_member_error")]
    /\ UNCHANGED <<STORAGE_CHANNEL_ID, posts, now, _rate_map, files, users, deliveries, settings, tasks,
                   firstClose, rlCalls>>

\* The membership loop refusing only the status "left"
Membership_kickedPasses(f) ==
    /\ flows[f].pc = "member"
    /\ LET req == files[flows[f].row].required_channels IN
       \/ \E st \in MemberStatus :
            /\ flows' = [flows EXCEPT ![f] =
                 IF st = "left" THEN [@ EXCEPT !.pc = "get_chat"]
                 ELSE IF flows[f].ch < Len(req) THEN [@ EXCEPT !.ch = @ + 1]
                 ELSE [@ EXCEPT !.pc = "forward"]]
            /\ log' = [log EXCEPT ![f] = Append(@, MemberEvent(st))]
       \/ Step(f, "answer_transient", "get_chat_member_error")
    /\ UNCHANGED <<STORAGE_CHANNEL_ID, posts, now, _rate_map, files, users, deliveries, settings, tasks,
                   firstClose, rlCalls>>

\* lines 263-279: member = await bot.get_chat_member(int(ch), uid)
Membership(f) ==
    /\ flows[f].pc = "member"
    /\ LET req == files[flows[f].row].required_channels IN
       \/ \E st \in MemberStatus :
            /\ flows' = [flows EXCEPT ![f] =
                 IF st \in {"left", "kicked"} THEN [@ EXCEPT !.pc = "get_chat"]
                 ELSE IF flows[f].ch < Len(req) THEN [@ EXCEPT !.ch = @ + 1]
                 ELSE [@ EXCEPT !.pc = "forward"]]
            /\ log' = [log EXCEPT ![f] = Append(@, MemberEvent(st))]
       \/ Step(f, "answer_transient", "get_chat_member_error")
    /\ UNCHANGED <<STORAGE_CHANNEL_ID, posts, now, _rate_map, files, users, deliveries, settings, tasks,
                   firstClose, rlCalls>>

\* line 269: ch_info = await bot.get_chat(int(ch)); building the keyboard
GetChat(f) ==
    /\ flows[f].pc = "get_chat"
    /\ \/ Step(f, "answer_join_kb", "get_chat")
       \/ Step(f, "answer_join_plain", "get_chat_error")
    /\ UNCHANGED <<STORAGE_CHANNEL_ID, posts, now, _rate_map, files, users, deliveries, settings, tasks,
                   firstClose, rlCalls>>

\* line 272: await message.answer(join prompt, reply_markup=kb).  message.answer
\* returns (SimpleMsg.answer always does) or raises (aiogram's Message.answer).
AnswerJoinKb(f) ==
    /\ flows[f].pc = "answer_join_kb"
    /\ \/ Step(f, "done", "answer_join")
       \/ Step(f, "answer_join_plain", "answer_join")
    /\ UNCHANGED <<STORAGE_CHANNEL_ID, posts, now, _rate_map, files, users, deliveries, settings, tasks,
                   firstClose, rlCalls>>

\* lines 273-275: await message.answer(join prompt); return
AnswerJoinPlain(f) ==
    /\ flows[f].pc = "answer_join_plain"
    /\ \/ Step(f, "done", "answer_join")
       \/ Step(f, "answer_transient", "answer_join")
    /\ UNCHANGED <<STORAGE_CHANNEL_ID, posts, now, _rate_map, files, users, deliveries, settings, tasks,
                   firstClose, rlCalls>>

\* lines 251, 258, 278, 288: await message.answer(notice); return
FinalAnswers == {"answer_throttle", "answer_invalid", "answer_transient", "answer_fwdfail"}

AnswerFinal(f) ==
    /\ flows[f].pc \in FinalAnswers
    /\ \/ Step(f, "done", flows[f].pc)
       \/ Escape(f, flows[f].pc)
    /\ UNCHANGED <<STORAGE_CHANNEL_ID, posts, now, _rate_map, files, users, deliveries, settings, tasks,
                   firstClose, rlCalls>>

\* The forward whose failure is logged and not returned from
Forward_swallow(f) ==
    /\ flows[f].pc = "forward"
    /\ \/ /\ flows' = [flows EXCEPT ![f] = [@ EXCEPT !.forwarded = MessageId(f, 1),
                                                    !.pc = "get_setting"]]
          /\ log' = [log EXCEPT ![f] = Append(@, "forward_message")]
       \/ Step(f, "get_setting", "forward_message_error")
    /\ UNCHANGED <<STORAGE_CHANNEL_ID, posts, now, _rate_map, files, users, deliveries, settings, tasks,
                   firstClose, rlCalls>>

\* lines 282-289: forwarded = await bot.forward_message(...)
Forward(f) ==
    /\ flows[f].pc = "forward"
    /\ \/ /\ flows' = [flows EXCEPT ![f] = [@ EXCEPT !.forwarded = MessageId(f, 1),
                                                    !.pc = "get_setting"]]
          /\ log' = [log EXCEPT ![f] = Append(@, "forward_message")]
       \/ /\ Step(f, "answer_fwdfail", "forward_message_error")
    /\ UNCHANGED <<STORAGE_CHANNEL_ID, posts, now, _rate_map, files, users, deliveries, settings, tasks,
                   firstClose, rlCalls>>

\* lines 292-296: timeout_setting = await get_setting(...); timeout = int(...)
GetSetting(f) ==
    /\ flows[f].pc = "get_setting"
    /\ \/ LET v == get_setting(settings, "delete_timeout_seconds", DefaultTimeoutStr) IN
            /\ flows' = [flows EXCEPT ![f] = [@ EXCEPT !.timeout = ParseTimeout(v),
                                                      !.pc = "warn"]]
            /\ log' = [log EXCEPT ![f] = Append(@, "get_setting")]
       \/ Escape(f, "get_setting_error")
    /\ UNCHANGED <<STORAGE_CHANNEL_ID, posts, now, _rate_map, files, users, deliveries, settings, tasks,
                   firstClose, rlCalls>>

\* line 298: warning = await bot.send_message(uid, ...)
Warn(f) ==
    /\ flows[f].pc = "warn"
    /\ \/ /\ flows' = [flows EXCEPT ![f] = [@ EXCEPT !.warning = MessageId(f, 2),
                                                    !.pc = "record"]]
          /\ log' = [log EXCEPT ![f] = Append(@, "send_warning")]
       \/ /\ Escape(f, "send_warning_error")
    /\ UNCHANGED <<STORAGE_CHANNEL_ID, posts, now, _rate_map, files, users, deliveries, settings, tasks,
                   firstClose, rlCalls>>

NoTask == [pc |-> "none", delivery_id |-> None, chat |-> None, forwarded |-> None,
           warning |-> None, wake |-> 0, attempts |-> <<>>]

\* line 300: delivery_id = await record_delivery(row['id'], uid, forwarded.message_id)
Record(f) ==
    /\ flows[f].pc = "record"
    /\ \/ /\ deliveries' = record_delivery(deliveries, flows[f].row, flows[f].uid,
                                           flows[f].forwarded)
          /\ flows' = [flows EXCEPT ![f] = [@ EXCEPT !.delivery_id = Len(deliveries) + 1,
                                                    !.pc = "views"]]
          /\ log' = [log EXCEPT ![f] = Append(@, "record_delivery")]
          /\ tasks' = Append(tasks, NoTask)
          /\ firstClose' = Append(firstClose, NULL)
       \/ /\ Escape(f, "record_delivery_error")
          /\ UNCHANGED <<deliveries, tasks, firstClose>>
    /\ UNCHANGED <<STORAGE_CHANNEL_ID, posts, now, _rate_map, files, users, settings, rlCalls>>

\* create_task with the first and third argument of do_delete exchanged
create_task_swapped(ts, delivery_id, chat_id, forwarded_msg_id, warning_msg_id, delay, t) ==
    [ts EXCEPT ![delivery_id] =
        [pc |-> "sleep", delivery_id |-> forwarded_msg_id, chat |-> chat_id,
         forwarded |-> delivery_id, warning |-> warning_msg_id,
         wake |-> t + Max(delay, 0), attempts |-> <<>>]]

\* line 320: asyncio.create_task(do_delete(delivery_id, uid, forwarded.message_id,
\* warning.message_id, timeout)); the task starts in asyncio.sleep(delay).  The
\* tasks are kept in the order of the deliveries ids returned by record_delivery.
create_task(ts, delivery_id, chat_id, forwarded_msg_id, warning_msg_id, delay, t) ==
    [ts EXCEPT ![delivery_id] =
        [pc |-> "sleep", delivery_id |-> delivery_id, chat |-> chat_id,
         forwarded |-> forwarded_msg_id, warning |-> warning_msg_id,
         wake |-> t + Max(delay, 0), attempts |-> <<>>]]

\* lines 301-320: await increment_file_views(row['id']); then the task is created
Views(f) ==
    /\ flows[f].pc = "views"
    /\ \/ /\ files' = increment_file_views(files, flows[f].row)
          /\ tasks' = create_task(tasks, flows[f].delivery_id, flows[f].uid,
                                  flows[f].forwarded, flows[f].warning,
                                  flows[f].timeout, now)
          /\ flows' = [flows EXCEPT ![f].pc = "done"]
          /\ log' = [log EXCEPT ![f] = @ \o <<"increment_file_views", "create_task">>]
       \/ /\ Escape(f, "increment_file_views_error")
          /\ UNCHANGED <<files, tasks>>
    /\ UNCHANGED <<STORAGE_CHANNEL_ID, posts, now, _rate_map, users, deliveries, settings, firstClose,
                   rlCalls>>

\* ------------------------------------------------------------------------
\* do_delete: the deferred deletion task of one delivery
\* ------------------------------------------------------------------------
TaskIds == 1..Len(tasks)

Attempt(d, pc, step, ok) ==
    tasks' = [tasks EXCEPT ![d] = [@ EXCEPT !.pc = pc,
                 !.attempts = Append(@, [step |-> step, ok |-> ok])]]

\* do_delete with one try around the three steps: the first failure ends the task
DeleteForwarded_abort(d) ==
    /\ tasks[d].pc = "sleep"
    /\ now >= tasks[d].wake
    /\ IF tasks[d].forwarded # None
       THEN \/ Attempt(d, "delete_warning", "delete_forwarded", TRUE)
            \/ Attempt(d, "finished", "delete_forwarded", FALSE)
       ELSE tasks' = [tasks EXCEPT ![d].pc = "delete_warning"]
    /\ UNCHANGED <<STORAGE_CHANNEL_ID, posts, now, _rate_map, files, users, deliveries, settings, flows, log,
                   firstClose, rlCalls>>

\* lines 305-310: asyncio.sleep(delay) is over; bot.delete_message(chat, forwarded)
DeleteForwarded(d) ==
    /\ tasks[d].pc = "sleep"
    /\ now >= tasks[d].wake
    /\ IF tasks[d].forwarded # None
       THEN \/ Attempt(d, "delete_warning", "delete_forwarded", TRUE)
            \/ Attempt(d, "delete_warning", "delete_forwarded", FALSE)
       ELSE tasks' = [tasks EXCEPT ![d].pc = "delete_warning"]
    /\ UNCHANGED <<STORAGE_CHANNEL_ID, posts, now, _rate_map, files, users, deliveries, settings, flows, log, firstClose, rlCalls>>

\* do_delete whose second step does not catch: a failure kills the task
DeleteWarning_uncaught(d) ==
    /\ tasks[d].pc = "delete_warning"
    /\ \/ Attempt(d, "mark", "delete_warning", TRUE)
       \/ Attempt(d, "raised", "delete_warning", FALSE)
    /\ UNCHANGED <<STORAGE_CHANNEL_ID, posts, now, _rate_map, files, users, deliveries, settings, flows, log,
                   firstClose, rlCalls>>

\* lines 311-314: bot.delete_message(chat, warning)
DeleteWarning(d) ==
    /\ tasks[d].pc = "delete_warning"
    /\ \/ Attempt(d, "mark", "delete_warning", TRUE)
       \/ Attempt(d, "mark", "delete_warning", FALSE)
    /\ UNCHANGED <<STORAGE_CHANNEL_ID, posts, now, _rate_map, files, users, deliveries, settings, flows, log, firstClose, rlCalls>>

\* The first successful close of a delivery
NoteClose(fc, d, t) ==
    [i \in 1..Len(fc) |-> IF i = d /\ fc[i] = NULL THEN t ELSE fc[i]]

\* lines 315-318: mark_delivery_deleted(delivery_id_local)
MarkDeleted(d) ==
    /\ tasks[d].pc = "mark"
    /\ \/ /\ deliveries' = mark_delivery_deleted(deliveries, tasks[d].delivery_id, now)
          /\ firstClose' = NoteClose(firstClose, tasks[d].delivery_id, now)
          /\ Attempt(d, "finished", "mark_delivery_deleted", TRUE)
       \/ /\ Attempt(d, "finished", "mark_delivery_deleted", FALSE)
          /\ UNCHANGED <<deliveries, firstClose>>
    /\ UNCHANGED <<STORAGE_CHANNEL_ID, posts, now, _rate_map, files, users, settings, flows, log,
                   rlCalls>>

\* ------------------------------------------------------------------------
\* The clock
\* ------------------------------------------------------------------------
\* The latest time a sleeping task waits for (0 if none sleeps)
RECURSIVE LatestWake(_)
LatestWake(d) ==
    IF d = 0 THEN 0
    ELSE Max(LatestWake(d - 1), IF tasks[d].pc = "sleep" THEN tasks[d].wake ELSE 0)

Tick ==
    /\ now < Max(MaxTime, LatestWake(Len(tasks)))
    /\ now' = now + TickStep
    /\ UNCHANGED <<STORAGE_CHANNEL_ID, posts, _rate_map, files, users, deliveries, settings, flows, log, tasks, firstClose, rlCalls>>

\* ------------------------------------------------------------------------
\* The system
\* ------------------------------------------------------------------------
FlowStep(f) ==
    \/ \E uid \in Users, token \in Tokens : Start(f, uid, token)
    \/ Upsert(f)
    \/ Lookup(f)
    \/ Membership(f)
    \/ GetChat(f)
    \/ AnswerJoinKb(f)
    \/ AnswerJoinPlain(f)
    \/ AnswerFinal(f)
    \/ Forward(f)
    \/ GetSetting(f)
    \/ Warn(f)
    \/ Record(f)
    \/ Views(f)

TaskStep(d) ==
    \/ DeleteForwarded(d)
    \/ DeleteWarning(d)
    \/ MarkDeleted(d)

Next ==
    \/ \E f \in Flows : FlowStep(f)
    \/ \E d \in TaskIds : TaskStep(d)
    \/ Tick

Spec == Init /\ [][Next]_vars

\* The event loop runs every deletion task that is ready, and time passes.
\* A delivery creates at most one task, so task ids stay within 1..NumFlows.
TaskStepOf(d) == d \in TaskIds /\ TaskStep(d)

Fairness ==
    /\ WF_vars(Tick)
    /\ \A d \in 1..NumFlows : WF_vars(TaskStepOf(d))

SpecLive == Spec /\ Fairness

\* ------------------------------------------------------------------------
\* Call sequences of is_rate_limited, from empty windows
\* ------------------------------------------------------------------------
CallsMade(u) == Len(rlCalls[u])

RECURSIVE TotalCalls(_)
TotalCalls(u) == IF u = 0 THEN 0 ELSE TotalCalls(u - 1) + CallsMade(u)

InitRL ==
    /\ InitCommon
    /\ STORAGE_CHANNEL_ID = StorageChannel
    /\ _rate_map = [u \in Users |-> <<>>]
    /\ users = {}
    /\ deliveries = <<>>
    /\ settings = {}

RLCall(uid) ==
    /\ TotalCalls(NumUsers) < MaxCalls
    /\ LET r == is_rate_limited(_rate_map[uid], now) IN
        /\ _rate_map' = [_rate_map EXCEPT ![uid] = r.lst]
        /\ rlCalls' = [rlCalls EXCEPT ![uid] = Append(@, [t |-> now, limited |-> r.limited])]
    /\ UNCHANGED <<STORAGE_CHANNEL_ID, posts, now, files, users, deliveries, settings, flows, log, tasks, firstClose>>

CallTick ==
    /\ now < MaxTimeCalls
    /\ now' = now + TickStep
    /\ UNCHANGED <<STORAGE_CHANNEL_ID, posts, _rate_map, files, users, deliveries, settings, flows, log, tasks,
                   firstClose, rlCalls>>

NextRL ==
    \/ \E uid \in Users : RLCall(uid)
    \/ CallTick

SpecRL == InitRL /\ [][NextRL]_vars

\* ------------------------------------------------------------------------
\* Call sequences of mark_delivery_deleted, on the deliveries rows a restarted
\* process finds open (their deletion tasks died with the old process)
\* ------------------------------------------------------------------------
OpenRow == [file_id |-> 1, user_id |-> 1, sent_message_id |-> 1, deleted_at |-> NULL]

InitClose ==
    /\ now = 0
    /\ STORAGE_CHANNEL_ID = StorageChannel
    /\ posts = [p \in Posts |-> IdlePost]
    /\ files = [FilesInit EXCEPT ![1].views = MaxRows]
    /\ flows = [f \in Flows |-> IdleFlow]
    /\ log = [f \in Flows |-> <<>>]
    /\ rlCalls = [u \in Users |-> <<>>]
    /\ _rate_map = [u \in Users |-> <<>>]
    /\ users = {1}
    /\ settings = {}
    /\ deliveries = [d \in 1..MaxRows |-> OpenRow]
    /\ tasks = [d \in 1..MaxRows |-> NoTask]
    /\ firstClose = [d \in 1..MaxRows |-> NULL]

CloseCall(d) ==
    /\ deliveries' = mark_delivery_deleted(deliveries, d, now)
    /\ firstClose' = NoteClose(firstClose, d, now)
    /\ UNCHANGED <<STORAGE_CHANNEL_ID, posts, now, _rate_map, files, users, settings, flows, log, tasks, rlCalls>>

NextClose ==
    \/ \E d \in 1..Len(deliveries) : CloseCall(d)
    \/ CallTick

SpecClose == InitClose /\ [][NextClose]_vars

\* ------------------------------------------------------------------------
\* process_channel_post
\* ------------------------------------------------------------------------
\* ADMIN_IDS and DEFAULT_REQUIRED_CHANNEL_IDS as read from the environment
ADMIN_IDS == {901}

DEFAULT_REQUIRED_CHANNEL_IDS == <<111>>

\* Keys a channel_post may carry besides chat and message_id; the platform
\* sends an animation with a document key next to the animation key
MediaChoices ==
    { {"text"}, {"photo"}, {"video"}, {"document"}, {"animation", "document"},
      {"animation"} }

\* file_unique_id of the media of an update
FileUniqueIds == {1, 2}

\* The 12 bytes os.urandom returns in the p-th call of make_token: fresh
Nonce(p) == p

\* make_token: the first 36 hex digits of HMAC-SHA256(TOKEN_SECRET,
\* file_unique_id + nonce); one digest per (file_unique_id, nonce) here
make_token(file_unique_id, nonce) ==
    CASE file_unique_id = 1 /\ nonce = 1 -> "h3f"
      [] file_unique_id = 1 /\ nonce = 2 -> "ha0"
      [] file_unique_id = 1 /\ nonce = 3 -> "hd2"
      [] file_unique_id = 2 /\ nonce = 1 -> "h7c"
      [] file_unique_id = 2 /\ nonce = 2 -> "h19"
      [] OTHER -> "h5e"

\* lines 190-201: the media key that is read, "" when there is none
FileType(keys) ==
    IF "video" \in keys THEN "video"
    ELSE IF "document" \in keys THEN "document"
    ELSE IF "animation" \in keys THEN "animation"
    ELSE ""

\* INSERT INTO files (...) VALUES (...) RETURNING id; active and views take
\* the defaults of the table
insert_file_record(fs, storage_chat_id, storage_message_id, file_unique_id, file_type, token, required_channels) ==
    Append(fs, [token |-> token, active |-> TRUE, required_channels |-> required_channels,
                storage_message_id |-> storage_message_id, views |-> 0,
                storage_chat_id |-> storage_chat_id, file_unique_id |-> file_unique_id,
                file_type |-> file_type])

PostStep(p, pc, e) ==
    posts' = [posts EXCEPT ![p] = [@ EXCEPT !.pc = pc, !.calls = Append(@, e)]]

PostMessageId(p) == 100 + p

\* process_channel_post that does not compare the chat with STORAGE_CHANNEL_ID
Arrive_anyChannel(p, chat_id, keys, file_unique_id) ==
    /\ posts[p].pc = "idle"
    /\ \A q \in Posts : q < p => posts[q].pc # "idle"
    /\ LET cp == [posts[p] EXCEPT !.chat_id = chat_id, !.keys = keys,
                                  !.message_id = PostMessageId(p)]
       IN  IF STORAGE_CHANNEL_ID = 0
           THEN posts' = [posts EXCEPT ![p] =
                    [cp EXCEPT !.pc = "done", !.calls = <<"ignored_not_configured">>]]
           ELSE IF FileType(keys) = ""
           THEN posts' = [posts EXCEPT ![p] =
                    [cp EXCEPT !.pc = "done", !.calls = <<"ignored_not_media">>]]
           ELSE posts' = [posts EXCEPT ![p] =
                    [cp EXCEPT !.pc = "insert", !.file_type = FileType(keys),
                               !.file_unique_id = file_unique_id,
                               !.token = make_token(file_unique_id, Nonce(p)),
                               !.calls = <<"make_token">>]]
    /\ UNCHANGED <<now, _rate_map, files, users, deliveries, settings, flows, log, tasks,
                   firstClose, rlCalls, STORAGE_CHANNEL_ID>>

\* lines 173-203: the update is read, the post is ignored or its token is made.
\* Updates are numbered in the order in which they arrive.
Arrive(p, chat_id, keys, file_unique_id) ==
    /\ posts[p].pc = "idle"
    /\ \A q \in Posts : q < p => posts[q].pc # "idle"
    /\ LET cp == [posts[p] EXCEPT !.chat_id = chat_id, !.keys = keys,
                                  !.message_id = PostMessageId(p)]
       IN  IF STORAGE_CHANNEL_ID = 0
           THEN posts' = [posts EXCEPT ![p] =
                    [cp EXCEPT !.pc = "done", !.calls = <<"ignored_not_configured">>]]
           ELSE IF chat_id # STORAGE_CHANNEL_ID
           THEN posts' = [posts EXCEPT ![p] =
                    [cp EXCEPT !.pc = "done", !.calls = <<"ignored_other_channel">>]]
           ELSE IF FileType(keys) = ""
           THEN posts' = [posts EXCEPT ![p] =
                    [cp EXCEPT !.pc = "done", !.calls = <<"ignored_not_media">>]]
           ELSE posts' = [posts EXCEPT ![p] =
                    [cp EXCEPT !.pc = "insert", !.file_type = FileType(keys),
                               !.file_unique_id = file_unique_id,
                               !.token = make_token(file_unique_id, Nonce(p)),
                               !.calls = <<"make_token">>]]
    /\ UNCHANGED <<now, _rate_map, files, users, deliveries, settings, flows, log, tasks,
                   firstClose, rlCalls, STORAGE_CHANNEL_ID>>

\* lines 204-210: await insert_file_record(...); a failure is logged and the
\* handler returns
InsertFile(p) ==
    /\ posts[p].pc = "insert"
    /\ \/ /\ files' = insert_file_record(files, posts[p].chat_id, posts[p].message_id,
                                         posts[p].file_unique_id, posts[p].file_type,
                                         posts[p].token, DEFAULT_REQUIRED_CHANNEL_IDS)
          /\ posts' = [posts EXCEPT ![p] =
                [@ EXCEPT !.pc = "get_me", !.file_db_id = Len(files) + 1,
                          !.calls = Append(@, "insert_file_record")]]
       \/ /\ PostStep(p, "done", "insert_file_record_error")
          /\ UNCHANGED files
    /\ UNCHANGED <<now, _rate_map, users, deliveries, settings, flows, log, tasks,
                   firstClose, rlCalls, STORAGE_CHANNEL_ID>>

\* line 213: me = await bot.get_me(), outside every try
GetMe(p) ==
    /\ posts[p].pc = "get_me"
    /\ \/ PostStep(p, "notify", "get_me")
       \/ posts' = [posts EXCEPT ![p] =
              [@ EXCEPT !.pc = "raised", !.calls = @ \o <<"get_me_error", "raise">>]]
    /\ UNCHANGED <<now, _rate_map, files, users, deliveries, settings, flows, log, tasks,
                   firstClose, rlCalls, STORAGE_CHANNEL_ID>>

\* lines 216-220: every admin is notified; safe_send_message swallows a failure
Notify(p) ==
    /\ posts[p].pc = "notify"
    /\ \E sent \in [ADMIN_IDS -> BOOLEAN] :
          PostStep(p, "done",
                   IF \A a \in ADMIN_IDS : sent[a] THEN "notified" ELSE "notify_failed")
    /\ UNCHANGED <<now, _rate_map, files, users, deliveries, settings, flows, log, tasks,
                   firstClose, rlCalls, STORAGE_CHANNEL_ID>>

InitPost ==
    /\ InitCommon
    /\ STORAGE_CHANNEL_ID \in {0, StorageChannel}
    /\ _rate_map = [u \in Users |-> <<>>]
    /\ users = {}
    /\ deliveries = <<>>
    /\ settings = {}

PostAction(p) ==
    \/ \E chat_id \in {StorageChannel, OtherChannel}, keys \in MediaChoices,
          file_unique_id \in FileUniqueIds :
            Arrive(p, chat_id, keys, file_unique_id)
    \/ InsertFile(p)
    \/ GetMe(p)
    \/ Notify(p)

NextPost == \E p \in Posts : PostAction(p)

SpecPost == InitPost /\ [][NextPost]_vars

\* ------------------------------------------------------------------------
\* C1: for one identity, starting from an empty window, as long as the calls
\* of is_rate_limited all fall inside one window of RATE_LIMIT_PERIOD seconds,
\* each of the first RATE_LIMIT_COUNT calls returns False and call number
\* RATE_LIMIT_COUNT+1 returns True.
\* ------------------------------------------------------------------------
InOneWindow(c, n) == c[n].t - c[1].t <= RATE_LIMIT_PERIOD

C1_FirstCountAllowed ==
    \A u \in Users :
        \A n \in 1..CallsMade(u) :
            (n <= RATE_LIMIT_COUNT + 1 /\ InOneWindow(rlCalls[u], n))
                => (rlCalls[u][n].limited <=> n = RATE_LIMIT_COUNT + 1)

\* the call number RATE_LIMIT_COUNT+1 of a user was made, a whole period after the first
C1_Witness ==
    \E u \in Users :
        /\ CallsMade(u) >= RATE_LIMIT_COUNT + 1
        /\ rlCalls[u][RATE_LIMIT_COUNT + 1].t = rlCalls[u][1].t + RATE_LIMIT_PERIOD
        /\ rlCalls[u][RATE_LIMIT_COUNT + 1].limited
        /\ ~rlCalls[u][RATE_LIMIT_COUNT].limited

\* ------------------------------------------------------------------------
\* What a redemption request has done, read from its log and the tables
\* ------------------------------------------------------------------------
Has(f, e) == \E i \in 1..Len(log[f]) : log[f][i] = e

Times(f, S) == Cardinality({i \in 1..Len(log[f]) : log[f][i] \in S})

Ended(f) == flows[f].pc \in {"done", "raised"}

\* The token matches no files row, or only rows with active = false
NoActiveRow(token) ==
    \A i \in 1..Len(files) : files[i].token = token => ~files[i].active

\* Every deliveries row is the row of the one request whose record_delivery
\* returned its id, and carries that request's file, user and forwarded copy
RowsAccounted ==
    /\ Len(deliveries) = Cardinality({f \in Flows : Has(f, "record_delivery")})
    /\ \A d \in 1..Len(deliveries) :
         \E f \in Flows :
            /\ Has(f, "record_delivery")
            /\ flows[f].delivery_id = d
            /\ deliveries[d].file_id = flows[f].row
            /\ deliveries[d].user_id = flows[f].uid
            /\ deliveries[d].sent_message_id = flows[f].forwarded

\* views of every file counts the requests whose increment_file_views returned
ViewsAccounted ==
    \A i \in 1..Len(files) :
        files[i].views =
            Cardinality({f \in Flows : flows[f].row = i /\ Has(f, "increment_file_views")})

\* The armed deletion tasks are those of the requests that reached create_task
TasksAccounted ==
    \A d \in TaskIds :
        tasks[d].pc # "none" <=>
            \E f \in Flows : flows[f].delivery_id = d /\ Has(f, "create_task")

NothingForwarded(f) == ~Has(f, "forward_message") /\ flows[f].forwarded = None

NothingRecorded(f) ==
    /\ ~Has(f, "record_delivery")
    /\ flows[f].delivery_id = None
    /\ RowsAccounted

NoViewsBump(f) == ~Has(f, "increment_file_views") /\ ViewsAccounted

NothingArmed(f) == ~Has(f, "create_task") /\ TasksAccounted

MemberEvents ==
    {"get_chat_member_member", "get_chat_member_left", "get_chat_member_kicked",
     "get_chat_member_error"}

RefusalEvents == {"get_chat_member_left", "get_chat_member_kicked"}

\* ------------------------------------------------------------------------
\* C2: a redemption whose token matches no files row, or only a row with
\* active = false, never forwards media, never inserts a deliveries row and
\* never increments views of any file, whatever the other requests do.
\* ------------------------------------------------------------------------
C2_InvalidTokenNoEffect ==
    \A f \in Flows :
        (flows[f].pc # "idle" /\ NoActiveRow(flows[f].token)) =>
            /\ NothingForwarded(f)
            /\ NothingRecorded(f)
            /\ NoViewsBump(f)
            /\ flows[f].row = None
            /\ \A i \in 1..Len(files) : ~files[i].active => files[i].views = 0

\* a request with the deactivated token was answered "invalid link" while the
\* other request, with an active token, was delivered
C2_Witness ==
    \E f, g \in Flows :
        /\ flows[f].token = "tC" /\ flows[f].pc = "done" /\ Has(f, "answer_invalid")
        /\ flows[g].token = "tA" /\ flows[g].pc = "done" /\ Has(g, "create_task")

\* ------------------------------------------------------------------------
\* C3: if get_chat_member raises for a required channel, the redemption never
\* forwards the media, never inserts a deliveries row, never increments views
\* and never arms a deletion task; its last answer is the transient-error notice.
\* ------------------------------------------------------------------------
C3_MembershipErrorStops ==
    \A f \in Flows :
        Has(f, "get_chat_member_error") =>
            /\ NothingForwarded(f)
            /\ NothingRecorded(f)
            /\ NoViewsBump(f)
            /\ NothingArmed(f)
            /\ Times(f, MemberEvents) = flows[f].ch
            /\ flows[f].pc \in {"answer_transient", "done", "raised"}
            /\ Ended(f) => Has(f, "answer_transient")

\* the query for the second required channel failed after the first was confirmed,
\* and the request has ended
C3_Witness ==
    \E f \in Flows :
        /\ Has(f, "get_chat_member_member")
        /\ Has(f, "get_chat_member_error")
        /\ flows[f].pc = "done"

\* ------------------------------------------------------------------------
\* C4: if the requester's status in a required channel is left or kicked, the
\* redemption answers with a join prompt and stops at that channel (no later
\* channel is queried): nothing is forwarded, no deliveries row is inserted,
\* views is unchanged, also when get_chat fails.
\* ------------------------------------------------------------------------
C4_NotMemberJoinPrompt ==
    \A f \in Flows :
        Times(f, RefusalEvents) > 0 =>
            /\ Times(f, RefusalEvents) = 1
            /\ Times(f, MemberEvents) = flows[f].ch
            /\ NothingForwarded(f)
            /\ NothingRecorded(f)
            /\ NoViewsBump(f)
            /\ flows[f].pc \in {"get_chat", "answer_join_kb", "answer_join_plain",
                                "answer_transient", "done", "raised"}
            /\ Ended(f) => Has(f, "answer_join")

\* a kicked requester got the join prompt although get_chat failed, while the
\* file was delivered to another requester
C4_Witness ==
    \E f, g \in Flows :
        /\ Has(f, "get_chat_member_kicked")
        /\ Has(f, "get_chat_error")
        /\ flows[f].pc = "done"
        /\ flows[g].row = flows[f].row
        /\ Has(g, "create_task")

\* ------------------------------------------------------------------------
\* C5: if forward_message fails, the redemption stops with a failure notice:
\* it inserts no deliveries row, increments no views and arms no deletion task.
\* ------------------------------------------------------------------------
C5_ForwardFailureStops ==
    \A f \in Flows :
        Has(f, "forward_message_error") =>
            /\ NothingForwarded(f)
            /\ NothingRecorded(f)
            /\ NoViewsBump(f)
            /\ NothingArmed(f)
            /\ flows[f].pc \in {"answer_fwdfail", "done", "raised"}
            /\ Ended(f) => Has(f, "answer_fwdfail")

\* a forward failed after both required channels were confirmed; the request ended
C5_Witness ==
    \E f \in Flows :
        /\ Has(f, "forward_message_error")
        /\ Times(f, {"get_chat_member_member"}) = 2
        /\ flows[f].pc = "done"

\* ------------------------------------------------------------------------
\* C6: closing a delivery is idempotent: after any sequence of calls of
\* mark_delivery_deleted on one delivery id, deleted_at is the time of the
\* first successful close.
\* ------------------------------------------------------------------------
C6_CloseKeepsFirstTime ==
    \A d \in 1..Len(deliveries) : deliveries[d].deleted_at = firstClose[d]

\* ------------------------------------------------------------------------
\* C7: two redemptions of the same valid active token by two different
\* identities, overlapping in any way, with no failing call and neither
\* refused by the rate limit or the membership check: both end delivered,
\* each with its own deliveries row, and views of the file has gone up by
\* exactly one per delivery (2 for the two of them; no increment is lost).
\* ------------------------------------------------------------------------
FailureEvents ==
    {"upsert_user_error", "get_file_by_token_error", "get_chat_member_error",
     "get_chat_error", "forward_message_error", "get_setting_error",
     "send_warning_error", "record_delivery_error", "increment_file_views_error",
     "raise"}

FailureFree(f) == Times(f, FailureEvents) = 0

Admitted(f) == Has(f, "allowed") /\ Times(f, RefusalEvents) = 0

Delivered(f) ==
    /\ flows[f].pc = "done"
    /\ Has(f, "create_task")
    /\ flows[f].delivery_id \in 1..Len(deliveries)
    /\ deliveries[flows[f].delivery_id].user_id = flows[f].uid
    /\ deliveries[flows[f].delivery_id].file_id = flows[f].row
    /\ files[flows[f].row].token = flows[f].token

C7_ConcurrentRedemptions ==
    \A f, g \in Flows :
        ( /\ f # g
          /\ flows[f].token = flows[g].token
          /\ ~NoActiveRow(flows[f].token)
          /\ flows[f].uid # flows[g].uid
          /\ Ended(f) /\ FailureFree(f) /\ Admitted(f)
          /\ Ended(g) /\ FailureFree(g) /\ Admitted(g) ) =>
            LET others == Flows \ {f, g}
                file == flows[f].row
            IN  /\ Delivered(f)
                /\ Delivered(g)
                /\ flows[f].delivery_id # flows[g].delivery_id
                /\ Len(deliveries) =
                     2 + Cardinality({h \in others : Has(h, "record_delivery")})
                /\ files[file].views =
                     2 + Cardinality({h \in others : flows[h].row = file
                                          /\ Has(h, "increment_file_views")})

\* both requests for the file with required channels are done; the one that
\* started second inserted its deliveries row first
C7_Witness ==
    /\ flows[1].token = "tB" /\ flows[2].token = "tB"
    /\ flows[1].uid # flows[2].uid
    /\ flows[1].pc = "done" /\ flows[2].pc = "done"
    /\ flows[2].delivery_id = 1 /\ flows[1].delivery_id = 2
    /\ files[2].views = 2

\* ------------------------------------------------------------------------
\* C8: in do_delete the three steps (delete the forwarded media, delete the
\* warning, mark the delivery deleted) are each attempted once, in that order,
\* whatever the outcome of the earlier ones, and the task ends without raising.
\* ------------------------------------------------------------------------
DeleteSteps == <<"delete_forwarded", "delete_warning", "mark_delivery_deleted">>

StepsDone(pc) ==
    CASE pc = "none" -> 0
      [] pc = "sleep" -> 0
      [] pc = "delete_warning" -> 1
      [] pc = "mark" -> 2
      [] pc = "finished" -> 3
      [] OTHER -> -1

C8_ThreeStepsBestEffort ==
    \A d \in TaskIds :
        /\ Len(tasks[d].attempts) = StepsDone(tasks[d].pc)
        /\ \A i \in 1..Len(tasks[d].attempts) : tasks[d].attempts[i].step = DeleteSteps[i]

\* a task has finished after all three of its steps failed
C8_Witness ==
    \E d \in TaskIds :
        /\ tasks[d].pc = "finished"
        /\ \A i \in 1..3 : ~tasks[d].attempts[i].ok

\* ------------------------------------------------------------------------
\* C9: under fair scheduling every armed deletion task eventually finishes
\* (nothing cancels it); a finished task whose storage update did not fail
\* has left deleted_at non-null, written when its timeout had elapsed.  A
\* failure-free redemption of a valid token without required channels by a
\* fresh identity, alone in the system, yields exactly one deliveries row and
\* views 0 -> 1.
\* ------------------------------------------------------------------------
Armed(d) == d \in TaskIds /\ tasks[d].pc # "none"

Finished(d) == d \in TaskIds /\ tasks[d].pc = "finished"

Closed(d) ==
    /\ deliveries[d].deleted_at # NULL
    /\ deliveries[d].deleted_at >= tasks[d].wake

ScenarioA(f) ==
    /\ \A g \in Flows \ {f} : flows[g].pc = "idle"
    /\ Ended(f) /\ FailureFree(f) /\ Has(f, "allowed")
    /\ Len(_rate_map[flows[f].uid]) = 1
    /\ ~NoActiveRow(flows[f].token)
    /\ \A i \in 1..Len(files) :
         files[i].token = flows[f].token => files[i].required_channels = <<>>

C9_State ==
    /\ \A d \in TaskIds :
         (tasks[d].pc = "finished" /\ tasks[d].attempts[3].ok) => Closed(d)
    /\ \A f \in Flows :
         ScenarioA(f) =>
            /\ Delivered(f)
            /\ Len(deliveries) = 1
            /\ files[flows[f].row].views = 1
            /\ Armed(1)

C9_DeletionRuns ==
    /\ \A d \in 1..NumFlows : Armed(d) ~> Finished(d)
    /\ []C9_State

\* the only request, by a fresh identity, was delivered; its task has finished
\* and the row is closed
C9_Witness ==
    /\ ScenarioA(1)
    /\ Finished(1)
    /\ Closed(1)
    /\ files[1].views = 1

\* ------------------------------------------------------------------------
\* C10: the rate limit comes first: a request that is_rate_limited reports as
\* limited is answered with the throttle notice, whatever its token, and does
\* nothing else: no upsert, no token lookup, no membership query, no forward,
\* no deliveries insert, no views increment.
\* ------------------------------------------------------------------------
C10_ThrottleFirst ==
    \A f \in Flows :
        /\ flows[f].pc # "idle" => log[f][1] \in {"limited", "allowed"}
        /\ Has(f, "limited") =>
            /\ \A i \in 1..Len(log[f]) : log[f][i] \in {"limited", "answer_throttle", "raise"}
            /\ flows[f].pc \in {"answer_throttle", "done", "raised"}
            /\ Ended(f) => Has(f, "answer_throttle")
            /\ flows[f].row = None
            /\ NothingForwarded(f)
            /\ NothingRecorded(f)
            /\ NoViewsBump(f)

\* two requests of an identity over its limit were refused: one with a valid
\* token, one with a token that was never issued
C10_Witness ==
    \E f, g \in Flows :
        /\ flows[f].token = "tA" /\ flows[g].token = "tX"
        /\ Has(f, "limited") /\ Has(g, "limited")
        /\ flows[f].pc = "done" /\ flows[g].pc = "done"

\* ------------------------------------------------------------------------
\* C11: whenever forward_message has succeeded, a deferred deletion of the
\* forwarded copy is attempted, whatever later step fails: a redemption that
\* has forwarded the media never ends without a deletion task armed for that
\* copy.
\* ------------------------------------------------------------------------
C11_ForwardedCopyGetsTask ==
    \A f \in Flows :
        (Ended(f) /\ Has(f, "forward_message")) =>
            \E d \in TaskIds :
                /\ tasks[d].pc # "none"
                /\ tasks[d].chat = flows[f].uid
                /\ tasks[d].forwarded = flows[f].forwarded

\* ------------------------------------------------------------------------
\* C12: a failure of upsert_user, get_file_by_token, get_chat_member,
\* forward_message, get_setting, the warning send_message, record_delivery or
\* increment_file_views is caught inside handle_start_message and answered
\* with one user-facing message: the exception does not leave the flow.
\* ------------------------------------------------------------------------
CallFailures ==
    {"upsert_user_error", "get_file_by_token_error", "get_chat_member_error",
     "forward_message_error", "get_setting_error", "send_warning_error",
     "record_delivery_error", "increment_file_views_error"}

Answers ==
    {"answer_throttle", "answer_invalid", "answer_transient", "answer_fwdfail",
     "answer_join"}

\* the flow has ended with the exception of a failed call
EscapedFromCall(f) ==
    /\ flows[f].pc = "raised"
    /\ Len(log[f]) >= 2
    /\ log[f][Len(log[f]) - 1] \in CallFailures

C12_FailuresCaught ==
    \A f \in Flows :
        Times(f, CallFailures) > 0 =>
            /\ ~EscapedFromCall(f)
            /\ flows[f].pc = "done" => Times(f, Answers) = 1

\* ------------------------------------------------------------------------
\* C13: the side effects of one redemption happen in the order rate-limit
\* check, user upsert, token lookup, membership checks, forward, (timeout
\* setting,) warning send, deliveries insert, views increment, arming of the
\* deletion task; a deletion task is armed only after its deliveries row
\* exists and carries that row's id.
\* ------------------------------------------------------------------------
Rank(e) ==
    CASE e \in {"limited", "allowed"} -> 1
      [] e \in {"upsert_user", "upsert_user_error"} -> 2
      [] e \in {"get_file_by_token", "get_file_by_token_error"} -> 3
      [] e \in MemberEvents -> 4
      [] e \in {"forward_message", "forward_message_error"} -> 5
      [] e \in {"get_setting", "get_setting_error"} -> 6
      [] e \in {"send_warning", "send_warning_error"} -> 7
      [] e \in {"record_delivery", "record_delivery_error"} -> 8
      [] e \in {"increment_file_views", "increment_file_views_error"} -> 9
      [] e = "create_task" -> 10
      [] OTHER -> 11

\* The calls of f are in rank order: only the membership query is made more
\* than once, and get_chat, the answers and the end of the flow (rank 11) come
\* after everything else
InOrder(f) ==
    \A i \in 1..(Len(log[f]) - 1) :
        \/ Rank(log[f][i]) < Rank(log[f][i + 1])
        \/ Rank(log[f][i]) = 4 /\ Rank(log[f][i + 1]) = 4
        \/ Rank(log[f][i]) = 11 /\ Rank(log[f][i + 1]) = 11

C13_OrderedSideEffects ==
    /\ \A f \in Flows : InOrder(f)
    /\ \A f \in Flows :
         Has(f, "create_task") =>
            /\ Has(f, "record_delivery")
            /\ flows[f].delivery_id \in 1..Len(deliveries)
            /\ tasks[flows[f].delivery_id].pc # "none"
            /\ tasks[flows[f].delivery_id].delivery_id = flows[f].delivery_id
    /\ \A d \in TaskIds :
         tasks[d].pc # "none" =>
            /\ tasks[d].delivery_id = d
            /\ d \in 1..Len(deliveries)
            /\ tasks[d].chat = deliveries[d].user_id
            /\ tasks[d].forwarded = deliveries[d].sent_message_id

\* the second of two overlapping requests has armed its task, for the row it
\* inserted first, after confirming both required channels
C13_Witness ==
    /\ Has(2, "create_task")
    /\ flows[2].delivery_id = 1
    /\ Times(2, {"get_chat_member_member"}) = 2
    /\ tasks[1].pc = "sleep"
    /\ flows[1].pc = "views"

\* ------------------------------------------------------------------------
\* C16: views of the file is incremented exactly once for every redemption
\* whose forward_message succeeded, whether or not a later step succeeds: a
\* redemption that has forwarded the media never ends without its increment.
\* ------------------------------------------------------------------------
C16_ViewPerForward ==
    /\ ViewsAccounted
    /\ \A f \in Flows :
         (Ended(f) /\ Has(f, "forward_message")) =>
            Times(f, {"increment_file_views"}) = 1

\* ------------------------------------------------------------------------
\* C17 as stated: every redemption attempt upserts the requester's user
\* record, whatever its outcome, throttled included (a failing upsert
\* statement aside).
\* ------------------------------------------------------------------------
C17_EveryAttemptUpserts ==
    \A f \in Flows :
        (Ended(f) /\ ~Has(f, "upsert_user_error")) =>
            /\ Has(f, "upsert_user")
            /\ flows[f].uid \in users

\* ------------------------------------------------------------------------
\* C17 as amended: every redemption attempt that is_rate_limited admits
\* calls upsert_user as its next step, whatever its later outcome, and once
\* the call has returned the requester has a user record; a throttled attempt
\* returns before upsert_user and upserts nothing.
\* ------------------------------------------------------------------------
UpsertCalls == {"upsert_user", "upsert_user_error"}

C17_AdmittedAttemptUpserts ==
    \A f \in Flows :
        /\ Has(f, "limited") => Times(f, UpsertCalls) = 0
        /\ (Has(f, "allowed") /\ flows[f].pc # "upsert") =>
              /\ log[f][2] \in UpsertCalls
              /\ Times(f, UpsertCalls) = 1
        /\ Has(f, "upsert_user") => flows[f].uid \in users

\* a fresh identity has its user record after an attempt with an unknown token,
\* and a throttled attempt of the other identity has ended without an upsert
C17_Witness ==
    \E f, g \in Flows :
        /\ flows[f].uid = 2 /\ flows[f].token = "tX" /\ flows[f].pc = "done"
        /\ Has(f, "upsert_user") /\ 2 \in users
        /\ flows[g].pc = "done" /\ Has(g, "limited") /\ ~Has(g, "upsert_user")

\* ------------------------------------------------------------------------
\* C18: deleted_at of a deliveries row is written at most once: a row is
\* inserted with deleted_at null, it becomes non-null only by the last step
\* of the deletion task armed for that row, and once non-null it never
\* changes again.
\* ------------------------------------------------------------------------
C18_Write ==
    /\ Len(deliveries') >= Len(deliveries)
    /\ \A d \in 1..Len(deliveries') :
         IF d > Len(deliveries)
         THEN deliveries'[d].deleted_at = NULL
         ELSE /\ deliveries[d].deleted_at # NULL
                    => deliveries'[d].deleted_at = deliveries[d].deleted_at
              /\ deliveries'[d].deleted_at # deliveries[d].deleted_at
                    => /\ tasks[d].pc = "mark"
                       /\ tasks[d].delivery_id = d
                       /\ tasks'[d].pc = "finished"
                       /\ flows' = flows

C18_ClosedByOwnTask ==
    \A d \in 1..Len(deliveries) :
        deliveries[d].deleted_at # NULL =>
            /\ tasks[d].pc = "finished"
            /\ tasks[d].attempts[3] = [step |-> "mark_delivery_deleted", ok |-> TRUE]
            /\ deliveries[d].deleted_at = firstClose[d]

C18_DeletedAtWrittenOnce == [][C18_Write]_vars /\ []C18_ClosedByOwnTask

\* the first row has been closed by its task while the second row, whose task
\* is still asleep, is open
C18_Witness ==
    /\ Len(deliveries) = 2
    /\ deliveries[1].deleted_at # NULL
    /\ deliveries[2].deleted_at = NULL
    /\ tasks[2].pc = "sleep"

\* ------------------------------------------------------------------------
\* C19: redemptions are not deduplicated: when two failure-free redemptions
\* of the same valid token by the same identity, both admitted by the rate
\* limit, have ended (in any interleaving), the media was forwarded twice,
\* there are two distinct deliveries rows, views went up by 2, and two
\* deletion tasks are armed, each holding and closing only its own row.
\* ------------------------------------------------------------------------
OwnTask(f) ==
    LET d == flows[f].delivery_id IN
        /\ Armed(d)
        /\ tasks[d].delivery_id = d
        /\ tasks[d].chat = flows[f].uid
        /\ tasks[d].forwarded = flows[f].forwarded
        /\ deliveries[d].sent_message_id = flows[f].forwarded
        /\ deliveries[d].deleted_at # NULL => tasks[d].pc = "finished"

C19_NoDeduplication ==
    \A f, g \in Flows :
        ( /\ f # g
          /\ flows[f].token = flows[g].token
          /\ ~NoActiveRow(flows[f].token)
          /\ flows[f].uid = flows[g].uid
          /\ Ended(f) /\ FailureFree(f) /\ Admitted(f)
          /\ Ended(g) /\ FailureFree(g) /\ Admitted(g) ) =>
            LET others == Flows \ {f, g}
                file == flows[f].row
            IN  /\ Times(f, {"forward_message"}) = 1
                /\ Times(g, {"forward_message"}) = 1
                /\ flows[f].forwarded # flows[g].forwarded
                /\ Delivered(f)
                /\ Delivered(g)
                /\ flows[f].delivery_id # flows[g].delivery_id
                /\ Len(deliveries) =
                     2 + Cardinality({h \in others : Has(h, "record_delivery")})
                /\ files[file].views =
                     2 + Cardinality({h \in others : flows[h].row = file
                                          /\ Has(h, "increment_file_views")})
                /\ OwnTask(f)
                /\ OwnTask(g)

\* the same identity redeemed the same token twice; the task of the first row
\* has closed it while the second row, whose task is still asleep, is open
C19_Witness ==
    /\ flows[1].token = "tA" /\ flows[2].token = "tA"
    /\ flows[1].uid = 1 /\ flows[2].uid = 1
    /\ flows[1].pc = "done" /\ flows[2].pc = "done"
    /\ FailureFree(1) /\ FailureFree(2)
    /\ Len(deliveries) = 2
    /\ files[1].views = 2
    /\ deliveries[1].deleted_at # NULL
    /\ deliveries[2].deleted_at = NULL
    /\ tasks[2].pc = "sleep"

\* ------------------------------------------------------------------------
\* C20: in every reachable state views of a file is at most the number of
\* deliveries rows of the file; views never decreases; and when every
\* redemption flow has ended and none met a storage failure, views of every
\* file equals the number of its deliveries rows.
\* ------------------------------------------------------------------------
StorageFailures ==
    {"upsert_user_error", "get_file_by_token_error", "get_setting_error",
     "record_delivery_error", "increment_file_views_error"}

RowsOf(i) == Cardinality({d \in 1..Len(deliveries) : deliveries[d].file_id = i})

C20_State ==
    \A i \in 1..Len(files) :
        /\ files[i].views <= RowsOf(i)
        /\ (\A f \in Flows : Ended(f) /\ Times(f, StorageFailures) = 0)
              => files[i].views = RowsOf(i)

C20_ViewsStep == \A i \in 1..Len(files) : files'[i].views >= files[i].views

C20_ViewsBoundedByRows == []C20_State /\ [][C20_ViewsStep]_vars

\* both flows have ended without a storage failure, one delivered and one
\* stopped by a failing warning message; the file has one row and views = 1
C20_Witness ==
    \E f, g \in Flows :
        /\ flows[f].pc = "done" /\ Has(f, "increment_file_views")
        /\ flows[g].pc = "raised" /\ Has(g, "send_warning_error")
        /\ flows[f].row = 1 /\ flows[g].row = 1
        /\ RowsOf(1) = 1 /\ files[1].views = 1

\* ------------------------------------------------------------------------
\* C15: the read-evict-append-write of a window in is_rate_limited is one
\* step with respect to the other flows.  When k flows of one identity have
\* started, in any interleaving with the steps of the other flows, the window
\* ends with the k timestamps of their calls, none lost, and the i-th call is
\* refused exactly when the window then holds more than RATE_LIMIT_COUNT
\* entries: of RATE_LIMIT_COUNT + 1 calls inside one period, counted from an
\* empty window, exactly the last is refused.
\* ------------------------------------------------------------------------
Started(u) == {f \in Flows : flows[f].pc # "idle" /\ flows[f].uid = u}

C15_WindowAtomic ==
    \A u \in Users :
        LET k == Len(rlCalls[u])
            w == _rate_map[u]
            before == Len(w) - k
        IN  /\ k = Cardinality(Started(u))
            /\ before >= 0
            /\ \A i \in 1..k :
                 /\ w[before + i] = rlCalls[u][i].t
                 /\ rlCalls[u][i].limited <=> (before + i > RATE_LIMIT_COUNT)
            /\ Cardinality({f \in Started(u) : Has(f, "limited")}) =
                 Max(0, Len(w) - Max(before, RATE_LIMIT_COUNT))

\* the window of identity 1 held RATE_LIMIT_COUNT - 1 entries; two of its
\* flows overlap: the first is about to forward, the second has been refused
C15_Witness ==
    /\ flows[1].uid = 1 /\ flows[2].uid = 1
    /\ flows[1].pc = "forward" /\ flows[2].pc = "answer_throttle"
    /\ Len(_rate_map[1]) = RATE_LIMIT_COUNT + 1
    /\ Len(rlCalls[1]) = 2
    /\ ~rlCalls[1][1].limited /\ rlCalls[1][2].limited

\* ------------------------------------------------------------------------
\* C14 as stated: process_channel_post creates a file record only for a post
\* of the configured storage channel with a video, document or animation; any
\* other post, and every post while STORAGE_CHANNEL_ID is 0, creates no record
\* and raises nothing; an accepted post creates exactly one record.
\* ------------------------------------------------------------------------
SupportedKinds == {"video", "document", "animation"}

Accepted(p) ==
    /\ posts[p].pc # "idle"
    /\ STORAGE_CHANNEL_ID # 0
    /\ posts[p].chat_id = STORAGE_CHANNEL_ID
    /\ posts[p].keys \cap SupportedKinds # {}

PostEnded(p) == posts[p].pc \in {"done", "raised"}

PostHas(p, e) == \E i \in 1..Len(posts[p].calls) : posts[p].calls[i] = e

\* the files rows made from the update of task p
CreatedBy(p) ==
    {i \in (Len(FilesInit) + 1)..Len(files) :
        /\ files[i].storage_chat_id = posts[p].chat_id
        /\ files[i].storage_message_id = posts[p].message_id}

IgnoredCleanly(p) ==
    /\ posts[p].pc = "done"
    /\ Len(posts[p].calls) = 1
    /\ posts[p].calls[1] \in
          {"ignored_not_configured", "ignored_other_channel", "ignored_not_media"}
    /\ CreatedBy(p) = {}

C14_AcceptedPostOneRecord ==
    \A p \in Posts :
        PostEnded(p) =>
            IF Accepted(p) THEN Cardinality(CreatedBy(p)) = 1 ELSE IgnoredCleanly(p)

\* ------------------------------------------------------------------------
\* C14 as amended: a post from another channel, a post without video,
\* document or animation, and every post while STORAGE_CHANNEL_ID is 0 is
\* ignored: no file record, no error.  An accepted post creates exactly one
\* file record when insert_file_record returns and none when it raises (the
\* failure is logged and the handler returns); no other record is created.
\* ------------------------------------------------------------------------
C14_RecordOnlyForStorageMedia ==
    /\ Len(files) =
          Len(FilesInit) + Cardinality({p \in Posts : PostHas(p, "insert_file_record")})
    /\ \A p \in Posts :
          /\ (posts[p].pc # "idle" /\ ~Accepted(p)) => IgnoredCleanly(p)
          /\ Accepted(p) =>
                /\ Cardinality(CreatedBy(p)) =
                      IF PostHas(p, "insert_file_record") THEN 1 ELSE 0
                /\ PostHas(p, "insert_file_record") =>
                      /\ CreatedBy(p) = {posts[p].file_db_id}
                      /\ files[posts[p].file_db_id].file_type \in posts[p].keys
                      /\ files[posts[p].file_db_id].token = posts[p].token
                /\ PostHas(p, "insert_file_record_error") =>
                      posts[p].pc = "done" /\ ~PostHas(p, "raise")

\* a video posted in another channel was ignored, and an animation posted in
\* the storage channel got its record (get_me failed afterwards)
C14_Witness ==
    /\ posts[1].chat_id = OtherChannel /\ posts[1].keys = {"video"}
    /\ posts[1].pc = "done" /\ CreatedBy(1) = {}
    /\ posts[2].chat_id = StorageChannel /\ posts[2].keys = {"animation", "document"}
    /\ posts[2].pc = "raised" /\ CreatedBy(2) = {Len(FilesInit) + 1}
    /\ files[Len(FilesInit) + 1].file_type = "document"

\* ------------------------------------------------------------------------
\* C21: a refused call of is_rate_limited still appends its timestamp, so
\* refused requests count against the limit.  After every call the window of
\* the identity holds the timestamps of all its calls, allowed or refused,
\* that lie within RATE_LIMIT_PERIOD of the latest one; a call is refused
\* exactly when RATE_LIMIT_COUNT or more of the identity's earlier calls,
\* allowed or refused, lie within the last RATE_LIMIT_PERIOD seconds.  So an
\* identity that keeps RATE_LIMIT_COUNT earlier requests in every window is
\* refused on every request after the first RATE_LIMIT_COUNT, and is allowed
\* again only when fewer than RATE_LIMIT_COUNT remain.
\* ------------------------------------------------------------------------
\* the calls before call i of c that are at most one period older than it
EarlierInPeriod(c, i) ==
    {j \in 1..(i - 1) : c[j].t >= c[i].t - RATE_LIMIT_PERIOD}

C21_RefusedCallsCount ==
    \A u \in Users :
        LET c == rlCalls[u]
            n == Len(c)
            w == _rate_map[u]
        IN  /\ \A i \in 1..n :
                 c[i].limited <=> Cardinality(EarlierInPeriod(c, i)) >= RATE_LIMIT_COUNT
            /\ n = 0 => w = <<>>
            /\ n > 0 =>
                 /\ Len(w) = Cardinality(EarlierInPeriod(c, n)) + 1
                 /\ \A k \in 1..Len(w) : w[k] = c[n - Len(w) + k].t

\* a call is refused although only RATE_LIMIT_COUNT - 1 allowed calls lie
\* within the last period: the refused call among them makes the difference
C21_Witness ==
    \E u \in Users :
        LET c == rlCalls[u] IN
            /\ Len(c) = RATE_LIMIT_COUNT + 2
            /\ c[Len(c)].limited
            /\ Cardinality({j \in EarlierInPeriod(c, Len(c)) : ~c[j].limited})
                  = RATE_LIMIT_COUNT - 1
            /\ Cardinality({j \in EarlierInPeriod(c, Len(c)) : c[j].limited}) = 1

====
